---------------------------- MODULE Spec2Model ----------------------------
(***************************************************************************)
(* Salary dashboards (Streamlit pages Home.py, pages/0_Main_Courts.py,     *)
(* pages/1_Overview.py, pages/2_Work_Mode.py, pages/3_Role_Comparison.py). *)
(* A page is a script that Streamlit runs top to bottom on every user      *)
(* interaction; each section of a script is one action here.  The pandas   *)
(* calls the scripts make are operators, computed the way pandas computes  *)
(* them.                                                                   *)
(***************************************************************************)
EXTENDS Integers, Sequences, FiniteSets, TLC

(***************************************************************************)
(* Bounds of the model.                                                    *)
(***************************************************************************)
\* rows of the CSV file in the page runs
MaxRows == 2
\* rows of the table handed to the filter function on its own
FilterRows == 2
\* rows of the table handed to the growth computation on its own
GrowthRows == 3
\* job titles beyond the ten that nlargest(10, ...) keeps
ExtraTitles == 1
\* of these titles, the first ones, whose salary varies
TiedTitles == 6
\* rows of the table handed to the role comparison on its own
DeltaRows == 3

(***************************************************************************)
(* Value domains the inputs are drawn from.                                *)
(***************************************************************************)
Years == {2020, 2021}
GrowthYears == {2020, 2021, 2022}
Levels == {"EN", "SE"}
Contracts == {"FT", "PT"}
Sizes == {"L", "M"}
Salaries == {0, 100}
GrowthSalaries == {0, 100, 110, 121}

\* Python's order on the job-title strings (sorted(), groupby's sorted keys)
Alphabet == <<"A", "B", "C", "D", "E", "F", "G", "H", "I", "J", "K", "L", "M">>
Rank(s) == CHOOSE i \in 1..Len(Alphabet) : Alphabet[i] = s
Titles == {"A", "B"}

(***************************************************************************)
(* float64 values as fractions <<n, d>> in lowest terms with d >= 0:       *)
(* d > 0 is the finite value n/d, <<1, 0>> is inf, <<-1, 0>> is -inf and   *)
(* <<0, 0>> is NaN, as numpy produces them on a division by zero.          *)
(***************************************************************************)
Abs(x) == IF x < 0 THEN -x ELSE x
Sign(x) == IF x > 0 THEN 1 ELSE IF x < 0 THEN -1 ELSE 0

RECURSIVE GCD(_, _)
GCD(a, b) == IF b = 0 THEN a ELSE GCD(b, a % b)

Float(n, d) ==
    IF d = 0 THEN <<Sign(n), 0>>
    ELSE LET g == GCD(Abs(n), Abs(d))
         IN  <<(Sign(d) * n) \div g, Abs(d) \div g>>

NaN == <<0, 0>>
IsNaN(a) == a = NaN
IsFinite(a) == a[2] > 0

FAdd(a, b) ==
    IF a[2] = 0 /\ b[2] = 0
    THEN (IF a = b THEN a ELSE NaN)
    ELSE Float(a[1] * b[2] + b[1] * a[2], a[2] * b[2])
FNeg(a) == <<-a[1], a[2]>>
FSub(a, b) == FAdd(a, FNeg(b))
FMul(a, b) == Float(a[1] * b[1], a[2] * b[2])
\* a / b for b >= 0 (every divisor here is a mean of non-negative salaries)
FDiv(a, b) == Float(a[1] * b[2], a[2] * b[1])
\* comparisons with a NaN operand are False, as in IEEE 754
FLe(a, b) ==
    /\ ~IsNaN(a) /\ ~IsNaN(b)
    /\ IF a[2] = 0 /\ b[2] = 0 THEN a[1] <= b[1]
       ELSE IF a[2] = 0 THEN a[1] < 0
       ELSE IF b[2] = 0 THEN b[1] > 0
       ELSE a[1] * b[2] <= b[1] * a[2]
FLt(a, b) == FLe(a, b) /\ a # b
FGt(a, b) == FLt(b, a)

(***************************************************************************)
(* Sequences.                                                              *)
(***************************************************************************)
Range(s) == {s[i] : i \in 1..Len(s)}

RECURSIVE SeqsUpTo(_, _)
\* the sequences over S of length at most n
SeqsUpTo(S, n) ==
    IF n = 0 THEN {<<>>}
    ELSE LET shorter == SeqsUpTo(S, n - 1)
         IN  shorter \cup {Append(s, x) : s \in {t \in shorter : Len(t) = n - 1}, x \in S}

RECURSIVE FSum(_)
FSum(s) == IF s = <<>> THEN Float(0, 1) ELSE FAdd(Head(s), FSum(Tail(s)))

\* the orders the scripts sort by: numbers, float64 values, strings, and
\* the rows of a grouped frame by their mean, ascending or descending
Le(ord, a, b) ==
    CASE ord = "int" -> a <= b
      [] ord = "float" -> FLe(a, b)
      [] ord = "str" -> Rank(a) <= Rank(b)
      [] ord = "mean_asc" -> FLe(a.mean, b.mean)
      [] ord = "mean_desc" -> FLe(b.mean, a.mean)
      [] ord = "count_desc" -> b.count <= a.count

RECURSIVE InsertBy(_, _, _)
\* x put into the ascending sequence s after the elements not above it
\* (a stable insertion: equal keys keep their order)
InsertBy(ord, x, s) ==
    IF s = <<>> THEN <<x>>
    ELSE IF Le(ord, Head(s), x) THEN <<Head(s)>> \o InsertBy(ord, x, Tail(s))
    ELSE <<x>> \o s

RECURSIVE SortBy(_, _)
SortBy(ord, s) ==
    IF s = <<>> THEN <<>>
    ELSE InsertBy(ord, s[Len(s)], SortBy(ord, SubSeq(s, 1, Len(s) - 1)))

RECURSIVE SortedSeq(_, _)
\* the elements of the set S in ascending order
SortedSeq(ord, S) ==
    IF S = {} THEN <<>>
    ELSE LET m == CHOOSE x \in S : \A y \in S : Le(ord, x, y)
         IN  <<m>> \o SortedSeq(ord, S \ {m})

(***************************************************************************)
(* pandas.  A DataFrame is the sequence of its rows, each a record from    *)
(* column name to value that also carries its index label "idx"; a Series  *)
(* is a sequence of values.                                                *)
(***************************************************************************)
Column(df, c) == [i \in 1..Len(df) |-> df[i][c]]
\* an integer column read as float64
FloatColumn(df, c) == [i \in 1..Len(df) |-> Float(df[i][c], 1)]

\* Series.isin(values)
IsIn(col, values) == [i \in 1..Len(col) |-> col[i] \in values]
\* mask & mask
MaskAnd(m1, m2) == [i \in 1..Len(m1) |-> m1[i] /\ m2[i]]

RECURSIVE BoolIndex(_, _)
\* df[mask]: the rows whose mask entry is True, in the order of df
BoolIndex(df, mask) ==
    IF df = <<>> THEN <<>>
    ELSE LET rest == BoolIndex(Tail(df), Tail(mask))
         IN  IF Head(mask) THEN <<Head(df)>> \o rest ELSE rest

\* Series.unique() as a set, Series.nunique()
Unique(col) == Range(col)
NUnique(col) == Cardinality(Range(col))

\* Series.mean(): NaN on an empty series (0/0)
Mean(col) == FDiv(FSum(col), Float(Len(col), 1))

\* Series.mean() with skipna=True, the default: NaN entries are left out
RECURSIVE DropNa(_)
DropNa(col) ==
    IF col = <<>> THEN <<>>
    ELSE IF IsNaN(Head(col)) THEN DropNa(Tail(col))
    ELSE <<Head(col)>> \o DropNa(Tail(col))
MeanSkipNa(col) == Mean(DropNa(col))

\* Series.median(): the middle value, or the mean of the two middle values
Median(col) ==
    LET s == SortBy("float", col)
        n == Len(s)
    IN  IF n = 0 THEN NaN
        ELSE IF n % 2 = 1 THEN s[(n + 1) \div 2]
        ELSE FDiv(FAdd(s[n \div 2], s[n \div 2 + 1]), Float(2, 1))

\* Series.max()
Max(col) ==
    IF col = <<>> THEN NaN
    ELSE CHOOSE m \in Range(col) : \A x \in Range(col) : FLe(x, m)

\* Series.mode().iloc[0]: mode() lists the most frequent values in ascending
\* order, so this is the least of them
Count(col, v) == Cardinality({i \in 1..Len(col) : col[i] = v})
ModeFirst(col) ==
    LET modes == {v \in Range(col) : \A w \in Range(col) : Count(col, w) <= Count(col, v)}
    IN  CHOOSE v \in modes : \A w \in modes : Le("str", v, w)

\* Series.quantile(q) for q = qn/qd, linear interpolation between the two
\* order statistics around position (n - 1) * q
Quantile(col, qn, qd) ==
    LET s == SortBy("float", col)
        n == Len(s)
        lo == ((n - 1) * qn) \div qd
        frac == Float((n - 1) * qn - lo * qd, qd)
    IN  IF lo + 1 >= n THEN s[n]
        ELSE FAdd(s[lo + 1], FMul(frac, FSub(s[lo + 2], s[lo + 1])))

\* df.groupby(key)[val].mean() with sort=True, the default: one row per key
\* in ascending key order
GroupByMean(df, key, vals, ord) ==
    LET keys == SortedSeq(ord, Unique(Column(df, key)))
        rowsOf(k) == {i \in 1..Len(df) : df[i][key] = k}
        valsOf(k) == LET idx == SortedSeq("int", rowsOf(k))
                     IN  [j \in 1..Len(idx) |-> vals[idx[j]]]
    IN  [g \in 1..Len(keys) |->
            [key |-> keys[g], mean |-> Mean(valsOf(keys[g])),
             median |-> Median(valsOf(keys[g]))]]

RECURSIVE Arrangements(_, _)
\* the sequences that hold the rows of a set in ascending order, rows of
\* equal value in any order
Arrangements(ord, rows) ==
    IF rows = {} THEN {<<>>}
    ELSE UNION {{<<r>> \o t : t \in Arrangements(ord, rows \ {r})} :
                   r \in {x \in rows : \A y \in rows : Le(ord, x, y)}}

\* Series.value_counts().reset_index(): one row per value, most frequent
\* first; the sort is sort_values', so equal counts come in any order
ValueCounts(col) ==
    Arrangements("count_desc",
                 {[key |-> v, count |-> Count(col, v)] : v \in Range(col)})

\* Series.pct_change(): NaN first, then s[i] / s[i-1] - 1
PctChange(s) ==
    [i \in 1..Len(s) |->
        IF i = 1 THEN NaN ELSE FSub(FDiv(s[i], s[i - 1]), Float(1, 1))]

RECURSIVE Reverse(_)
Reverse(s) == IF s = <<>> THEN <<>> ELSE Append(Reverse(Tail(s)), Head(s))

\* nlargest with keep="last": equal values in the reverse order of the frame
NLargestKeepLast(n, frame) ==
    LET s == SortBy("mean_desc", Reverse(frame))
    IN  SubSeq(s, 1, IF n < Len(s) THEN n ELSE Len(s))

\* DataFrame.nlargest(n, col) with keep="first", the default: the n rows of
\* largest value in descending order, equal values in the order of the frame
\* (pandas selects them with a mergesort, which is stable)
NLargest(n, frame) ==
    LET s == SortBy("mean_desc", frame)
    IN  SubSeq(s, 1, IF n < Len(s) THEN n ELSE Len(s))

\* DataFrame.sort_values(col): ascending, with kind="quicksort", the default,
\* which is not stable: where equal values end up depends on the numpy build
\* (an insertion sort keeps their order, a vectorized sorting network need
\* not), so the result is any one of the ascending arrangements
SortValues(frame) == Arrangements("mean_asc", Range(frame))

(***************************************************************************)
(* The state: the CSV file the pages read, Streamlit's st.cache_data store *)
(* (one per server, shared by every page and session), and the variables   *)
(* of the script run in progress.                                          *)
(***************************************************************************)
VARIABLES
    page,         \* the script being run
    pc,           \* the section of the script to run next
    csv,          \* data/salaries.csv: [columns, rows]
    cache,        \* st.cache_data: entries [key, value]
    df,           \* the loaded DataFrame
    sel,          \* the sidebar's multiselect values and currency
    df_filtered,  \* df_filtered (Home), df_f (0_Main_Courts)
    kpi,          \* the values handed to st.metric
    growth,       \* Home's growth
    df_vis,       \* Home's df_vis
    top,          \* top_job_titles (Home), top_cargos (0_Main_Courts)
    roles,        \* the two selectbox values
    comparison,   \* comparison (Home, 3_Role_Comparison), comp (0_Main_Courts)
    delta,        \* delta (0_Main_Courts), diff (3_Role_Comparison)
    shown,        \* the messages given to st.error/warning/info/success
    exc,          \* the exception that ended the run, or "none"
    hit,          \* whether the run's last memoized call was served from the cache
    other         \* where another session's run of Home.py stands, or "absent"

vars == <<page, pc, csv, cache, df, sel, df_filtered, kpi, growth, df_vis,
          top, roles, comparison, delta, shown, exc, hit, other>>

Pages == {"Home", "Main_Courts", "Overview", "Work_Mode", "Role_Comparison"}

(***************************************************************************)
(* The CSV file.  Its header is either naming the repository uses; a file  *)
(* may lack a column.                                                      *)
(***************************************************************************)
HeaderEN == <<"Year", "Experience_Level", "Employment_Type", "Company_Size",
              "Salary_In_Usd", "Job_Title", "Remote_Ratio", "Employee_Residence_Iso3">>
HeaderPT == <<"ano", "senioridade", "contrato", "tamanho_empresa",
              "usd", "cargo", "remoto", "residencia_iso3">>

REQUIRED_COLUMNS == Range(HeaderEN)
COLUNAS == Range(HeaderPT)

Pos(header, c) == CHOOSE i \in 1..Len(header) : header[i] = c

\* the file with the given header, without the dropped columns, holding the
\* data rows (records under the names of HeaderEN)
CsvFile(header, dropped, data) ==
    LET cols == Range(header) \ dropped
    IN  [columns |-> cols,
         rows |-> [i \in 1..Len(data) |->
                      [c \in cols |-> data[i][HeaderEN[Pos(header, c)]]]]]

\* pd.read_csv: the rows of the file under a RangeIndex
ReadCsv(file) ==
    [i \in 1..Len(file.rows) |-> ("idx" :> (i - 1)) @@ file.rows[i]]

(***************************************************************************)
(* st.cache_data: a call is keyed by the function and the value of its     *)
(* arguments; a hit returns the stored value, a miss runs the function and *)
(* stores its result.  st.cache_data.clear() empties the store.            *)
(***************************************************************************)
\* a key that leaves the arguments out
CacheKeyByFunction(fn, args) == <<fn, <<>>>>

CacheKey(fn, args) == <<fn, args>>
CacheHits(store, fn, args) == {e \in store : e.key = CacheKey(fn, args)}
CachedValue(store, fn, args, computed) ==
    IF CacheHits(store, fn, args) # {}
    THEN (CHOOSE e \in CacheHits(store, fn, args) : TRUE).value
    ELSE computed
CacheAfter(store, fn, args, computed) ==
    IF CacheHits(store, fn, args) # {} THEN store
    ELSE store \cup {[key |-> CacheKey(fn, args), value |-> computed]}

(***************************************************************************)
(* The functions of the scripts.                                           *)
(***************************************************************************)
\* filter_data with | in place of the last &
filter_data_or(d, years, experience_levels, employment_types, company_sizes) ==
    BoolIndex(d,
        [i \in 1..Len(d) |->
            \/ /\ d[i]["Year"] \in years
               /\ d[i]["Experience_Level"] \in experience_levels
               /\ d[i]["Employment_Type"] \in employment_types
            \/ d[i]["Company_Size"] \in company_sizes])

\* Home.py, filter_data
filter_data(d, years, experience_levels, employment_types, company_sizes) ==
    BoolIndex(d,
        MaskAnd(MaskAnd(MaskAnd(
            IsIn(Column(d, "Year"), years),
            IsIn(Column(d, "Experience_Level"), experience_levels)),
            IsIn(Column(d, "Employment_Type"), employment_types)),
            IsIn(Column(d, "Company_Size"), company_sizes)))

\* 0_Main_Courts.py, filtrar
filtrar(d, anos, senioridades, contratos, tamanhos) ==
    BoolIndex(d,
        MaskAnd(MaskAnd(MaskAnd(
            IsIn(Column(d, "ano"), anos),
            IsIn(Column(d, "senioridade"), senioridades)),
            IsIn(Column(d, "contrato"), contratos)),
            IsIn(Column(d, "tamanho_empresa"), tamanhos)))

\* a salary column as float64: "salario" already is, the CSV's are integers
Num(d, c) == IF c = "salario" THEN Column(d, c) ELSE FloatColumn(d, c)

\* the trim with < in place of <=
TrimmedStrict(d) ==
    IF d # <<>>
    THEN LET limit == Quantile(Num(d, "Salary_In_Usd"), 99, 100)
         IN  BoolIndex(d, [i \in 1..Len(d) |-> FLt(Num(d, "Salary_In_Usd")[i], limit)])
    ELSE d

\* Home.py 141-145: the rows at or below the 99th percentile of the salary
Trimmed(d) ==
    IF d # <<>>
    THEN LET limit == Quantile(Num(d, "Salary_In_Usd"), 99, 100)
         IN  BoolIndex(d, [i \in 1..Len(d) |-> FLe(Num(d, "Salary_In_Usd")[i], limit)])
    ELSE d

\* the KPI scalars read from the table cut at the 99th percentile
KpisOfTrimmed(d) ==
    LET t == Trimmed(d)
    IN  IF d = <<>>
        THEN [mean |-> Float(0, 1), median |-> Float(0, 1), max |-> Float(0, 1),
              count |-> 0, mode |-> "-"]
        ELSE [mean |-> Mean(Num(t, "Salary_In_Usd")),
              median |-> Median(Num(t, "Salary_In_Usd")),
              max |-> Max(Num(t, "Salary_In_Usd")),
              count |-> Len(t),
              mode |-> ModeFirst(Column(t, "Job_Title"))]

\* the KPI scalars with the empty-table branch guarding the mode alone
KpisUnguarded(d) ==
    [mean |-> Mean(Num(d, "Salary_In_Usd")),
     median |-> Median(Num(d, "Salary_In_Usd")),
     max |-> Max(Num(d, "Salary_In_Usd")),
     count |-> Len(d),
     mode |-> IF d = <<>> THEN "-" ELSE ModeFirst(Column(d, "Job_Title"))]

\* Home.py 102-111: the KPI scalars of the filtered table
Kpis(d) ==
    IF d = <<>>
    THEN [mean |-> Float(0, 1), median |-> Float(0, 1), max |-> Float(0, 1),
          count |-> 0, mode |-> "-"]
    ELSE [mean |-> Mean(Num(d, "Salary_In_Usd")),
          median |-> Median(Num(d, "Salary_In_Usd")),
          max |-> Max(Num(d, "Salary_In_Usd")),
          count |-> Len(d),
          mode |-> ModeFirst(Column(d, "Job_Title"))]

\* the single change from the first year's mean to the last year's
GrowthFirstToLast(d) ==
    LET means == Column(GroupByMean(d, "Year", Num(d, "Salary_In_Usd"), "int"), "mean")
    IN  FMul(FSub(FDiv(means[Len(means)], means[1]), Float(1, 1)), Float(100, 1))

\* Home.py 124-129: groupby("Year") mean, pct_change, mean, times 100
Growth(d) ==
    FMul(MeanSkipNa(PctChange(Column(
            GroupByMean(d, "Year", Num(d, "Salary_In_Usd"), "int"), "mean"))),
         Float(100, 1))

\* Home.py 156-161, 0_Main_Courts.py 126-131:
\* groupby(key, as_index=False)[val].mean().nlargest(10, val).sort_values(val)
TopN == 10
\* (the frames sort_values may return)
TopGroups(d, key, val) ==
    SortValues(NLargest(TopN, GroupByMean(d, key, Num(d, val), "str")))

\* Home.py 241-246, 0_Main_Courts.py 175-180, 3_Role_Comparison.py 33-38:
\* d[d[key].isin([a, b])].groupby(key)[val].agg(mean, median).reset_index()
CompareFrame(d, key, val, a, b) ==
    LET sub == BoolIndex(d, IsIn(Column(d, key), {a, b}))
    IN  GroupByMean(sub, key, Num(sub, val), "str")

\* 0_Main_Courts.py 76-77: df_f["salario"], in USD or converted to EUR
TAXA_EUR == Float(92, 100)
WithSalario(d, moeda) ==
    [i \in 1..Len(d) |->
        ("salario" :> (IF moeda = "USD" THEN Float(d[i]["usd"], 1)
                       ELSE FMul(Float(d[i]["usd"], 1), TAXA_EUR))) @@ d[i]]

\* 0_Main_Courts.py 96-99: the four metrics (the page has no mode)
KpisMain(d) ==
    [mean |-> Mean(Num(d, "salario")), median |-> Median(Num(d, "salario")),
     max |-> Max(Num(d, "salario")), count |-> Len(d), mode |-> ""]

\* 0_Main_Courts.py 193: (comp.loc[1, "media"] / comp.loc[0, "media"] - 1) * 100
Delta(comp) ==
    FMul(FSub(FDiv(comp[2].mean, comp[1].mean), Float(1, 1)), Float(100, 1))

\* 3_Role_Comparison.py 62-65: ((avg_a - avg_b) / avg_b) * 100
MeanOf(frame, k) == (CHOOSE r \in Range(frame) : r.key = k).mean
Diff(frame, role_a, role_b) ==
    FMul(FDiv(FSub(MeanOf(frame, role_a), MeanOf(frame, role_b)),
              MeanOf(frame, role_b)),
         Float(100, 1))

\* st.selectbox(label, options, index): an index outside a non-empty list
\* of options raises StreamlitAPIException
SelectboxRaises(options, index) == Len(options) > 0 /\ index >= Len(options)

(***************************************************************************)
(* A script run.                                                           *)
(***************************************************************************)
NoSel == [years |-> {}, levels |-> {}, contracts |-> {}, sizes |-> {}, moeda |-> "USD"]
NoKpi == [mean |-> NaN, median |-> NaN, max |-> NaN, count |-> -1, mode |-> ""]
NoRoles == <<"", "">>

\* the variables of a run before its first line
Fresh ==
    /\ pc = "clear"
    /\ df = <<>> /\ sel = NoSel /\ df_filtered = <<>> /\ kpi = NoKpi
    /\ growth = NaN /\ df_vis = <<>> /\ top = <<>> /\ roles = NoRoles
    /\ comparison = <<>> /\ delta = NaN /\ shown = {} /\ exc = "none"
    /\ hit = FALSE

\* the same, as the effect of starting a run
Restart ==
    /\ pc' = "clear"
    /\ df' = <<>> /\ sel' = NoSel /\ df_filtered' = <<>> /\ kpi' = NoKpi
    /\ growth' = NaN /\ df_vis' = <<>> /\ top' = <<>> /\ roles' = NoRoles
    /\ comparison' = <<>> /\ delta' = NaN /\ shown' = {} /\ exc' = "none"
    /\ hit' = FALSE

PageData ==
    [Year : Years, Experience_Level : {"SE"}, Employment_Type : {"FT"},
     Company_Size : {"M"}, Salary_In_Usd : Salaries, Job_Title : Titles,
     Remote_Ratio : {0}, Employee_Residence_Iso3 : {"USA"}]

Init ==
    /\ page \in Pages
    /\ \E header \in {HeaderEN, HeaderPT} :
       \E dropped \in {{}} \cup {{c} : c \in Range(header)} :
       \E data \in SeqsUpTo(PageData, MaxRows) :
            csv = CsvFile(header, dropped, data)
    /\ cache = {}
    /\ other = "absent"
    /\ Fresh

\* every script: st.cache_data.clear()
ClearCache ==
    /\ pc = "clear"
    /\ cache' = {}
    /\ pc' = "load"
    /\ UNCHANGED <<other, hit, page, csv, df, sel, df_filtered, kpi, growth, df_vis, top,
                   roles, comparison, delta, shown, exc>>

AfterLoad(p) ==
    CASE p \in {"Home", "Main_Courts"} -> "validate"
      [] p = "Overview" -> "metrics"
      [] p = "Work_Mode" -> "work_mode"
      [] p = "Role_Comparison" -> "roles"

\* every script: df = load_data(), memoized
LoadData ==
    /\ pc = "load"
    /\ df' = CachedValue(cache, "load_data", <<>>, ReadCsv(csv))
    /\ cache' = CacheAfter(cache, "load_data", <<>>, ReadCsv(csv))
    /\ hit' = (CacheHits(cache, "load_data", <<>>) # {})
    /\ pc' = AfterLoad(page)
    /\ UNCHANGED <<other, page, csv, sel, df_filtered, kpi, growth, df_vis, top,
                   roles, comparison, delta, shown, exc>>

(***************************************************************************)
(* Home.py                                                                 *)
(***************************************************************************)
\* 39-46: Dataset Validation
ValidateHome ==
    /\ page = "Home" /\ pc = "validate"
    /\ IF REQUIRED_COLUMNS \subseteq csv.columns
       THEN pc' = "sidebar" /\ shown' = shown
       ELSE pc' = "stopped" /\ shown' = shown \cup {"error:columns"}
    /\ UNCHANGED <<other, hit, page, csv, cache, df, sel, df_filtered, kpi, growth, df_vis,
                   top, roles, comparison, delta, exc>>

\* 51-75: Sidebar - Filters; each multiselect returns a sublist of its options
SidebarHome ==
    /\ page = "Home" /\ pc = "sidebar"
    /\ \E years \in SUBSET Unique(Column(df, "Year")),
          experience_levels \in SUBSET Unique(Column(df, "Experience_Level")),
          employment_types \in SUBSET Unique(Column(df, "Employment_Type")),
          company_sizes \in SUBSET Unique(Column(df, "Company_Size")) :
            sel' = [years |-> years, levels |-> experience_levels,
                    contracts |-> employment_types, sizes |-> company_sizes,
                    moeda |-> "USD"]
    /\ pc' = "filter"
    /\ UNCHANGED <<other, hit, page, csv, cache, df, df_filtered, kpi, growth, df_vis, top,
                   roles, comparison, delta, shown, exc>>

\* 80-89: Filter with cache
FilterHome ==
    /\ page = "Home" /\ pc = "filter"
    /\ LET args == <<df, sel.years, sel.levels, sel.contracts, sel.sizes>>
           computed == filter_data(df, sel.years, sel.levels, sel.contracts, sel.sizes)
       IN  /\ df_filtered' = CachedValue(cache, "filter_data", args, computed)
           /\ cache' = CacheAfter(cache, "filter_data", args, computed)
           /\ hit' = (CacheHits(cache, "filter_data", args) # {})
    /\ pc' = "kpis"
    /\ UNCHANGED <<other, page, csv, df, sel, kpi, growth, df_vis, top, roles,
                   comparison, delta, shown, exc>>

\* 100-118: KPIs
KPIsHome ==
    /\ page = "Home" /\ pc = "kpis"
    /\ kpi' = Kpis(df_filtered)
    /\ shown' = IF df_filtered = <<>> THEN shown \cup {"warning:no_data"} ELSE shown
    /\ pc' = "insight"
    /\ UNCHANGED <<other, hit, page, csv, cache, df, sel, df_filtered, growth, df_vis, top,
                   roles, comparison, delta, exc>>

\* 123-136: Automatic Insight
InsightHome ==
    /\ page = "Home" /\ pc = "insight"
    /\ IF df_filtered # <<>> /\ NUnique(Column(df_filtered, "Year")) > 1
       THEN /\ growth' = Growth(df_filtered)
            /\ shown' = shown \cup
                  {IF FGt(Growth(df_filtered), Float(0, 1))
                   THEN "success:growth" ELSE "warning:growth"}
       ELSE UNCHANGED <<growth, shown>>
    /\ pc' = "trim"
    /\ UNCHANGED <<other, hit, page, csv, cache, df, sel, df_filtered, kpi, df_vis, top,
                   roles, comparison, delta, exc>>

\* 141-145: Outlier removal (visual)
TrimHome ==
    /\ page = "Home" /\ pc = "trim"
    /\ df_vis' = Trimmed(df_filtered)
    /\ pc' = "charts"
    /\ UNCHANGED <<other, hit, page, csv, cache, df, sel, df_filtered, kpi, growth, top,
                   roles, comparison, delta, shown, exc>>

\* 150-225: Charts, all built from df_vis
ChartsHome ==
    /\ page = "Home" /\ pc = "charts"
    /\ IF df_vis # <<>>
       THEN top' \in TopGroups(df_vis, "Job_Title", "Salary_In_Usd")
       ELSE top' = top
    /\ shown' = IF BoolIndex(df_vis, IsIn(Column(df_vis, "Job_Title"), {"Data Scientist"})) = <<>>
                THEN shown \cup {"info:no_data_scientist"} ELSE shown
    /\ pc' = "comparison"
    /\ UNCHANGED <<other, hit, page, csv, cache, df, sel, df_filtered, kpi, growth, df_vis,
                   roles, comparison, delta, exc>>

\* 230-281: Job Title Comparison, Data Download, Table
ComparisonHome ==
    /\ page = "Home" /\ pc = "comparison"
    /\ IF df_filtered # <<>>
       THEN \E job_title_a, job_title_b \in Unique(Column(df, "Job_Title")) :
              /\ roles' = <<job_title_a, job_title_b>>
              /\ comparison' = CompareFrame(df_filtered, "Job_Title", "Salary_In_Usd",
                                            job_title_a, job_title_b)
       ELSE UNCHANGED <<roles, comparison>>
    /\ pc' = "done"
    /\ UNCHANGED <<other, hit, page, csv, cache, df, sel, df_filtered, kpi, growth, df_vis,
                   top, delta, shown, exc>>

(***************************************************************************)
(* pages/0_Main_Courts.py                                                  *)
(***************************************************************************)
\* 40-47: VALIDACAO
ValidateMain ==
    /\ page = "Main_Courts" /\ pc = "validate"
    /\ IF COLUNAS \subseteq csv.columns
       THEN pc' = "sidebar" /\ shown' = shown
       ELSE pc' = "stopped" /\ shown' = shown \cup {"error:columns"}
    /\ UNCHANGED <<other, hit, page, csv, cache, df, sel, df_filtered, kpi, growth, df_vis,
                   top, roles, comparison, delta, exc>>

\* 52-59: SIDEBAR
SidebarMain ==
    /\ page = "Main_Courts" /\ pc = "sidebar"
    /\ \E moeda \in {"USD", "EUR"},
          anos \in SUBSET Unique(Column(df, "ano")),
          senioridades \in SUBSET Unique(Column(df, "senioridade")),
          contratos \in SUBSET Unique(Column(df, "contrato")),
          tamanhos \in SUBSET Unique(Column(df, "tamanho_empresa")) :
            sel' = [years |-> anos, levels |-> senioridades,
                    contracts |-> contratos, sizes |-> tamanhos, moeda |-> moeda]
    /\ pc' = "filter"
    /\ UNCHANGED <<other, hit, page, csv, cache, df, df_filtered, kpi, growth, df_vis, top,
                   roles, comparison, delta, shown, exc>>

\* 64-77: FILTRO COM CACHE, and the salario column
FilterMain ==
    /\ page = "Main_Courts" /\ pc = "filter"
    /\ LET args == <<df, sel.years, sel.levels, sel.contracts, sel.sizes>>
           computed == filtrar(df, sel.years, sel.levels, sel.contracts, sel.sizes)
       IN  /\ df_filtered' = WithSalario(CachedValue(cache, "filtrar", args, computed),
                                         sel.moeda)
           /\ cache' = CacheAfter(cache, "filtrar", args, computed)
           /\ hit' = (CacheHits(cache, "filtrar", args) # {})
    /\ pc' = "kpis"
    /\ UNCHANGED <<other, page, csv, df, sel, kpi, growth, df_vis, top, roles,
                   comparison, delta, shown, exc>>

\* 88-99: KPIs; an empty table ends the run with st.stop()
KPIsMain ==
    /\ page = "Main_Courts" /\ pc = "kpis"
    /\ IF df_filtered = <<>>
       THEN /\ shown' = shown \cup {"warning:no_data"}
            /\ pc' = "stopped"
            /\ kpi' = kpi
       ELSE /\ kpi' = KpisMain(df_filtered)
            /\ pc' = "charts"
            /\ shown' = shown
    /\ UNCHANGED <<other, hit, page, csv, cache, df, sel, df_filtered, growth, df_vis, top,
                   roles, comparison, delta, exc>>

\* 106-164: EVOLUCAO TEMPORAL, TOP CARGOS, HEATMAP
ChartsMain ==
    /\ page = "Main_Courts" /\ pc = "charts"
    /\ top' \in TopGroups(df_filtered, "cargo", "salario")
    /\ pc' = "comparison"
    /\ UNCHANGED <<other, hit, page, csv, cache, df, sel, df_filtered, kpi, growth, df_vis,
                   roles, comparison, delta, shown, exc>>

\* 169-233: COMPARACAO ENTRE CARGOS, then ranking, download and table
ComparisonMain ==
    /\ page = "Main_Courts" /\ pc = "comparison"
    /\ LET options == SortedSeq("str", Unique(Column(df, "cargo")))
       IN  IF SelectboxRaises(options, 1)
           THEN /\ exc' = "StreamlitAPIException" /\ pc' = "raised"
                /\ UNCHANGED <<roles, comparison, delta, shown>>
           ELSE \E c1, c2 \in Range(options) :
                  LET comp == CompareFrame(df_filtered, "cargo", "salario", c1, c2)
                  IN  /\ roles' = <<c1, c2>>
                      /\ comparison' = comp
                      /\ IF Len(comp) < 2
                         THEN /\ exc' = "KeyError" /\ pc' = "raised"
                              /\ UNCHANGED <<delta, shown>>
                         ELSE /\ delta' = Delta(comp)
                              /\ shown' = shown \cup {"info:delta"}
                              /\ pc' = "done" /\ exc' = exc
    /\ UNCHANGED <<other, hit, page, csv, cache, df, sel, df_filtered, kpi, growth, df_vis, top>>

(***************************************************************************)
(* pages/1_Overview.py, pages/2_Work_Mode.py, pages/3_Role_Comparison.py:  *)
(* no validation section; a column the file lacks raises KeyError where    *)
(* the script first reads it.                                              *)
(***************************************************************************)
\* 1_Overview.py 26-41: the three metrics and the histogram, from df["usd"]
MetricsOverview ==
    /\ page = "Overview" /\ pc = "metrics"
    /\ IF "usd" \notin csv.columns
       THEN exc' = "KeyError" /\ pc' = "raised" /\ kpi' = kpi
       ELSE /\ kpi' = [mean |-> Mean(Num(df, "usd")), median |-> Median(Num(df, "usd")),
                       max |-> NaN, count |-> Len(df), mode |-> ""]
            /\ pc' = "done" /\ exc' = exc
    /\ UNCHANGED <<other, hit, page, csv, cache, df, sel, df_filtered, growth, df_vis, top,
                   roles, comparison, delta, shown>>

\* 2_Work_Mode.py 26-43: df["remoto"].value_counts() and the pie chart
ChartWorkMode ==
    /\ page = "Work_Mode" /\ pc = "work_mode"
    /\ IF "remoto" \notin csv.columns
       THEN exc' = "KeyError" /\ pc' = "raised" /\ top' = top
       ELSE /\ top' \in ValueCounts(Column(df, "remoto"))
            /\ pc' = "done" /\ exc' = exc
    /\ UNCHANGED <<other, hit, page, csv, cache, df, sel, df_filtered, kpi, growth, df_vis,
                   roles, comparison, delta, shown>>

\* 3_Role_Comparison.py 26-70: the two selectboxes, the comparison frame,
\* the bar chart and the extra insight
CompareRoles ==
    /\ page = "Role_Comparison" /\ pc = "roles"
    /\ IF "cargo" \notin csv.columns
       THEN /\ exc' = "KeyError" /\ pc' = "raised"
            /\ UNCHANGED <<roles, comparison, delta, shown>>
       ELSE LET options == SortedSeq("str", Unique(Column(df, "cargo")))
            IN  IF SelectboxRaises(options, 1)
                THEN /\ exc' = "StreamlitAPIException" /\ pc' = "raised"
                     /\ UNCHANGED <<roles, comparison, delta, shown>>
                ELSE IF "usd" \notin csv.columns
                THEN /\ exc' = "KeyError" /\ pc' = "raised"
                     /\ UNCHANGED <<roles, comparison, delta, shown>>
                ELSE IF options = <<>>
                THEN /\ pc' = "done"
                     /\ UNCHANGED <<roles, comparison, delta, shown, exc>>
                ELSE \E role_a, role_b \in Range(options) :
                       LET cmp == CompareFrame(df, "cargo", "usd", role_a, role_b)
                       IN  /\ roles' = <<role_a, role_b>>
                           /\ comparison' = cmp
                           /\ IF role_a # role_b
                              THEN /\ delta' = Diff(cmp, role_a, role_b)
                                   /\ shown' = shown \cup {"info:diff"}
                              ELSE UNCHANGED <<delta, shown>>
                           /\ pc' = "done" /\ exc' = exc
    /\ UNCHANGED <<other, hit, page, csv, cache, df, sel, df_filtered, kpi, growth, df_vis, top>>

(***************************************************************************)
(* A user interaction (a widget change, a page change) after a run ended:  *)
(* Streamlit runs the chosen page's script again from its first line.      *)
(***************************************************************************)
RerunTo(p) ==
    /\ pc \in {"done", "stopped", "raised"}
    /\ page' = p
    /\ Restart
    /\ UNCHANGED <<csv, cache, other>>

Rerun == \E p \in Pages : RerunTo(p)

Next ==
    \/ ClearCache \/ LoadData
    \/ ValidateHome \/ SidebarHome \/ FilterHome \/ KPIsHome \/ InsightHome
    \/ TrimHome \/ ChartsHome \/ ComparisonHome
    \/ ValidateMain \/ SidebarMain \/ FilterMain \/ KPIsMain \/ ChartsMain
    \/ ComparisonMain
    \/ MetricsOverview \/ ChartWorkMode \/ CompareRoles
    \/ Rerun

Spec == Init /\ [][Next]_vars

(***************************************************************************)
(* The filter functions on their own: filter_data and filtrar applied to   *)
(* any table and any four accepted-value lists.                            *)
(***************************************************************************)
FilterTableData ==
    [Year : Years, Experience_Level : Levels, Employment_Type : Contracts,
     Company_Size : {"M"}, Salary_In_Usd : {100}, Job_Title : {"A"},
     Remote_Ratio : {0}, Employee_Residence_Iso3 : {"USA"}]

InitFilter ==
    /\ page \in {"Home", "Main_Courts"}
    /\ \E data \in SeqsUpTo(FilterTableData, FilterRows) :
            csv = CsvFile(IF page = "Home" THEN HeaderEN ELSE HeaderPT, {}, data)
    /\ df = ReadCsv(csv)
    /\ sel \in [years : SUBSET Years, levels : SUBSET Levels,
                contracts : SUBSET Contracts, sizes : SUBSET Sizes, moeda : {"USD"}]
    /\ pc = "call"
    /\ hit = FALSE /\ other = "absent"
    /\ cache = {} /\ df_filtered = <<>> /\ kpi = NoKpi /\ growth = NaN
    /\ df_vis = <<>> /\ top = <<>> /\ roles = NoRoles /\ comparison = <<>>
    /\ delta = NaN /\ shown = {} /\ exc = "none"

ApplyFilterData ==
    /\ page = "Home" /\ pc = "call"
    /\ df_filtered' = filter_data(df, sel.years, sel.levels, sel.contracts, sel.sizes)
    /\ pc' = "return"
    /\ UNCHANGED <<other, hit, page, csv, cache, df, sel, kpi, growth, df_vis, top, roles,
                   comparison, delta, shown, exc>>

ApplyFiltrar ==
    /\ page = "Main_Courts" /\ pc = "call"
    /\ df_filtered' = filtrar(df, sel.years, sel.levels, sel.contracts, sel.sizes)
    /\ pc' = "return"
    /\ UNCHANGED <<other, hit, page, csv, cache, df, sel, kpi, growth, df_vis, top, roles,
                   comparison, delta, shown, exc>>

NextFilter == ApplyFilterData \/ ApplyFiltrar

SpecFilter == InitFilter /\ [][NextFilter]_vars

\* the names of the four filterable columns under the page's naming
DimCols(p) ==
    IF p = "Home"
    THEN [years |-> "Year", levels |-> "Experience_Level",
          contracts |-> "Employment_Type", sizes |-> "Company_Size"]
    ELSE [years |-> "ano", levels |-> "senioridade",
          contracts |-> "contrato", sizes |-> "tamanho_empresa"]
Dims == {"years", "levels", "contracts", "sizes"}

\* row r passes selection s on every one of the four dimensions
Accepted(p, r, s) == \A dim \in Dims : r[DimCols(p)[dim]] \in s[dim]

(***************************************************************************)
(* C1.  The filter keeps a row if and only if, on each of the four         *)
(* dimensions (year, seniority, contract type, company size), the row's    *)
(* value is in the accepted set; the rows kept are rows of the table,      *)
(* unchanged and in the table's order; an empty accepted set on any        *)
(* dimension leaves no row.                                                *)
(***************************************************************************)
C1_FilterKeepsExactlyAccepted ==
    pc = "return" =>
        /\ \A i \in 1..Len(df) :
              (\E j \in 1..Len(df_filtered) : df_filtered[j].idx = df[i].idx)
                  <=> Accepted(page, df[i], sel)
        /\ \A j \in 1..Len(df_filtered) : df_filtered[j] \in Range(df)
        /\ \A j, k \in 1..Len(df_filtered) :
              j < k => df_filtered[j].idx < df_filtered[k].idx
        /\ (\E dim \in Dims : sel[dim] = {}) => df_filtered = <<>>

\* a table of two rows of which only the second passes, the first failing
\* on the year alone
C1_Witness ==
    /\ pc = "return" /\ page = "Home"
    /\ Len(df) = 2 /\ Len(df_filtered) = 1 /\ df_filtered[1].idx = 1
    /\ df[1]["Year"] \notin sel.years /\ df[1]["Experience_Level"] \in sel.levels
    /\ df[1]["Employment_Type"] \in sel.contracts /\ df[1]["Company_Size"] \in sel.sizes

(***************************************************************************)
(* Two sessions on one server.  The store of st.cache_data belongs to the  *)
(* server, so a second session running Home.py clears it and fills it      *)
(* while the first session's run is under way.  Of the second session only *)
(* the sections that touch the store are actions.                          *)
(***************************************************************************)
CacheTableData ==
    [Year : Years, Experience_Level : {"SE"}, Employment_Type : {"FT"},
     Company_Size : {"M"}, Salary_In_Usd : {100}, Job_Title : {"A"},
     Remote_Ratio : {0}, Employee_Residence_Iso3 : {"USA"}]

InitCache ==
    /\ page = "Home"
    /\ \E data \in SeqsUpTo(CacheTableData, MaxRows) :
            csv = CsvFile(HeaderEN, {}, data)
    /\ cache = {}
    /\ other = "clear"
    /\ Fresh

\* Home.py 21, in the other session
OtherClear ==
    /\ other = "clear"
    /\ cache' = {}
    /\ other' = "load"
    /\ UNCHANGED <<page, pc, csv, df, sel, df_filtered, kpi, growth, df_vis, top,
                   roles, comparison, delta, shown, exc, hit>>

\* Home.py 33, in the other session
OtherLoad ==
    /\ other = "load"
    /\ cache' = CacheAfter(cache, "load_data", <<>>, ReadCsv(csv))
    /\ other' = "filter"
    /\ UNCHANGED <<page, pc, csv, df, sel, df_filtered, kpi, growth, df_vis, top,
                   roles, comparison, delta, shown, exc, hit>>

\* Home.py 53-89, in the other session, with its own multiselect values; the
\* rest of its run leaves the store alone
OtherFilter ==
    /\ other = "filter"
    /\ LET d == CachedValue(cache, "load_data", <<>>, ReadCsv(csv))
       IN  \E years \in SUBSET Unique(Column(d, "Year")),
              experience_levels \in SUBSET Unique(Column(d, "Experience_Level")),
              employment_types \in SUBSET Unique(Column(d, "Employment_Type")),
              company_sizes \in SUBSET Unique(Column(d, "Company_Size")) :
                cache' = CacheAfter(cache, "filter_data",
                            <<d, years, experience_levels, employment_types, company_sizes>>,
                            filter_data(d, years, experience_levels, employment_types,
                                        company_sizes))
    /\ other' = "clear"
    /\ UNCHANGED <<page, pc, csv, df, sel, df_filtered, kpi, growth, df_vis, top,
                   roles, comparison, delta, shown, exc, hit>>

NextCache ==
    \/ ClearCache \/ LoadData
    \/ ValidateHome \/ SidebarHome \/ FilterHome \/ KPIsHome \/ InsightHome
    \/ TrimHome \/ ChartsHome \/ ComparisonHome
    \/ RerunTo("Home")
    \/ OtherClear \/ OtherLoad \/ OtherFilter

SpecCache == InitCache /\ [][NextCache]_vars

RECURSIVE KeepAccepted(_, _, _)
\* the rows of d that pass selection s, in the order of d
KeepAccepted(p, d, s) ==
    IF d = <<>> THEN <<>>
    ELSE IF Accepted(p, Head(d), s) THEN <<Head(d)>> \o KeepAccepted(p, Tail(d), s)
    ELSE KeepAccepted(p, Tail(d), s)

(***************************************************************************)
(* C2.  In every run of Home.py, whatever runs came before and whatever    *)
(* another session did to the cache, the filtered table the KPIs, charts   *)
(* and export read is the source table filtered by the selection of this   *)
(* run: what the filter function returns when called past the cache.       *)
(***************************************************************************)
C2_FilteredIsOfCurrentSelection ==
    (page = "Home" /\ pc \in {"kpis", "insight", "trim", "charts", "comparison", "done"}) =>
        /\ df_filtered = KeepAccepted("Home", ReadCsv(csv), sel)
        /\ df_filtered = filter_data(ReadCsv(csv), sel.years, sel.levels,
                                     sel.contracts, sel.sizes)

\* the filter call was served from the cache, from an entry the other
\* session stored (this run began by clearing the cache), and kept one row
\* of two
C2_Witness ==
    /\ page = "Home" /\ pc = "kpis" /\ hit
    /\ Len(df) = 2 /\ Len(df_filtered) = 1

(***************************************************************************)
(* The columns each page reads.                                            *)
(***************************************************************************)
Consumes(p) ==
    CASE p = "Home" -> REQUIRED_COLUMNS
      [] p = "Main_Courts" -> COLUNAS \ {"remoto"}
      [] p = "Overview" -> {"usd"}
      [] p = "Work_Mode" -> {"remoto"}
      [] p = "Role_Comparison" -> {"cargo", "usd"}

RunEnded == pc \in {"done", "stopped", "raised"}

(***************************************************************************)
(* C3.  On every page, a run over a dataset that lacks a column the page   *)
(* reads ends halted on a reported validation error, and never by reading  *)
(* the table: no run ends any other way, with an exception or complete.    *)
(***************************************************************************)
C3_MissingColumnHaltsOnValidation ==
    (~(Consumes(page) \subseteq csv.columns) /\ RunEnded) =>
        (pc = "stopped" /\ "error:columns" \in shown /\ exc = "none")

(***************************************************************************)
(* The sections of Home.py and 0_Main_Courts.py after the KPI section.     *)
(***************************************************************************)
PastKpis ==
    \/ page = "Home" /\ pc \in {"insight", "trim", "charts", "comparison", "done"}
    \/ /\ page = "Main_Courts"
       /\ \/ pc \in {"charts", "comparison", "done", "raised"}
          \/ pc = "stopped" /\ "error:columns" \notin shown

NothingAggregated ==
    /\ shown \cap {"success:growth", "warning:growth", "info:delta"} = {}
    /\ top = <<>> /\ comparison = <<>> /\ roles = NoRoles
    /\ exc = "none"

RolesOf(d, c) == Unique(Column(d, c))
FewGroups ==
    \/ Cardinality(RolesOf(df, "cargo")) < 2
    \/ roles[1] = roles[2]
    \/ page = "Main_Courts" /\ ~({roles[1], roles[2]} \subseteq RolesOf(df_filtered, "cargo"))

C5_FewGroupsNotApplicable ==
    /\ ( /\ page \in {"Main_Courts", "Role_Comparison"}
         /\ Consumes(page) \subseteq csv.columns
         /\ pc \in {"done", "raised"}
         /\ FewGroups )
       => (exc = "none" /\ shown \cap {"info:delta", "info:diff"} = {})
    /\ ( /\ page = "Home"
         /\ pc \in {"trim", "charts", "comparison", "done"}
         /\ NUnique(Column(df_filtered, "Year")) < 2 )
       => shown \cap {"success:growth", "warning:growth"} = {}

(***************************************************************************)
(* C6.  The percentage of the two-group comparison that reaches st.info    *)
(* is a finite number: with a base mean of 0 no inf and no NaN is shown.   *)
(***************************************************************************)
C6_DeliveredPercentageIsFinite ==
    (shown \cap {"info:delta", "info:diff"} # {}) => IsFinite(delta)

(***************************************************************************)
(* Statistics of the salaries of a table, by counting.                     *)
(***************************************************************************)
Sal(d, i) == d[i]["Salary_In_Usd"]
RECURSIVE SumSal(_)
SumSal(d) == IF d = <<>> THEN 0 ELSE Head(d)["Salary_In_Usd"] + SumSal(Tail(d))
\* the k-th smallest salary of d
Kth(d, k) ==
    CHOOSE x \in {Sal(d, i) : i \in 1..Len(d)} :
        /\ Cardinality({i \in 1..Len(d) : Sal(d, i) < x}) < k
        /\ k <= Cardinality({i \in 1..Len(d) : Sal(d, i) <= x})
TitleCount(d, t) == Cardinality({i \in 1..Len(d) : d[i]["Job_Title"] = t})

(***************************************************************************)
(* C7.  In every run of Home.py the KPI scalars are those of the filtered  *)
(* table, never of the table cut at the 99th percentile: the count is the  *)
(* number of filtered rows, the mean their sum over their number, the      *)
(* median their middle value (the midpoint of the two middle values), the  *)
(* max their largest, the role the most frequent one (the first by name    *)
(* among equals); and through the trim and the charts the filtered table   *)
(* stays the source table filtered by the selection.                       *)
(***************************************************************************)
C7_KpisOfUntrimmedTable ==
    (page = "Home" /\ pc \in {"insight", "trim", "charts", "comparison", "done"}) =>
        /\ df_filtered = KeepAccepted("Home", df, sel)
        /\ df_filtered # <<>> =>
            LET n == Len(df_filtered) IN
            /\ kpi.count = n
            /\ kpi.mean[1] * n = SumSal(df_filtered) * kpi.mean[2]
            /\ kpi.mean[2] > 0
            /\ kpi.max = <<Kth(df_filtered, n), 1>>
            /\ kpi.median[2] > 0
            /\ 2 * kpi.median[1] =
                   (Kth(df_filtered, (n + 1) \div 2) + Kth(df_filtered, n \div 2 + 1))
                       * kpi.median[2]
            /\ \A t \in Titles :
                   \/ TitleCount(df_filtered, t) < TitleCount(df_filtered, kpi.mode)
                   \/ /\ TitleCount(df_filtered, t) = TitleCount(df_filtered, kpi.mode)
                      /\ Rank(kpi.mode) <= Rank(t)

\* a run whose trim removed a row, the KPIs still counting it
C7_Witness ==
    /\ page = "Home" /\ pc = "done"
    /\ Len(df_filtered) = 2 /\ Len(df_vis) = 1 /\ kpi.count = 2
    /\ kpi.max = <<100, 1>> /\ kpi.mean = <<50, 1>>

(***************************************************************************)
(* C9.  The trim keeps exactly the filtered rows whose salary is at most   *)
(* the 99th percentile of the filtered salaries (position 0.99 (n - 1) of  *)
(* the sorted salaries, interpolated linearly between its two neighbours): *)
(* rows of the filtered table in their order, no more of them than it has, *)
(* every row of the least salary among them; an empty table stays empty.   *)
(***************************************************************************)
C9_TrimKeepsUpToPercentile ==
    (page = "Home" /\ pc \in {"charts", "comparison", "done"}) =>
        LET n == Len(df_filtered)
            lo == (99 * (n - 1)) \div 100
            r == 99 * (n - 1) - 100 * lo
            below == Kth(df_filtered, lo + 1)
            above == IF lo + 2 <= n THEN Kth(df_filtered, lo + 2) ELSE below
            kept(i) == 100 * Sal(df_filtered, i) <= 100 * below + r * (above - below)
        IN  /\ n = 0 => df_vis = <<>>
            /\ n > 0 =>
                /\ \A i \in 1..n :
                      (\E j \in 1..Len(df_vis) : df_vis[j].idx = df_filtered[i].idx)
                          <=> kept(i)
                /\ \A j \in 1..Len(df_vis) : df_vis[j] \in Range(df_filtered)
                /\ \A j, k \in 1..Len(df_vis) : j < k => df_vis[j].idx < df_vis[k].idx
                /\ Len(df_vis) <= n
                /\ \A i \in 1..n :
                      Sal(df_filtered, i) = Kth(df_filtered, 1)
                          => \E j \in 1..Len(df_vis) : df_vis[j] = df_filtered[i]

\* two filtered rows of different salaries: the trim drops the larger
C9_Witness ==
    /\ page = "Home" /\ pc = "charts"
    /\ Len(df_filtered) = 2 /\ Len(df_vis) = 1
    /\ Sal(df_vis, 1) < Kth(df_filtered, 2)

(***************************************************************************)
(* The TOP CARGOS section on its own, on tables of more than ten roles:    *)
(* 0_Main_Courts.py about to run it, after a run that loaded the file,     *)
(* kept the sidebar's defaults (everything selected, USD) and computed the *)
(* KPIs.  The table has one row for each of the first TopN + ExtraTitles   *)
(* role names, in alphabetical or in reverse order, the k-th role paid     *)
(* 100 k, or 100 (k + 1) if it is one of the first TiedTitles, so that     *)
(* neighbours may tie, and possibly a second row for the last role, 200    *)
(* below its first.                                                        *)
(***************************************************************************)
TopNTitles == TopN + ExtraTitles

TopNRow(k, salary) ==
    [Year |-> 2020, Experience_Level |-> "SE", Employment_Type |-> "FT",
     Company_Size |-> "M", Salary_In_Usd |-> salary, Job_Title |-> Alphabet[k],
     Remote_Ratio |-> 0, Employee_Residence_Iso3 |-> "USA"]

TopNTables ==
    {(IF reversed THEN Reverse(t) ELSE t) \o extra :
        t \in {[k \in 1..TopNTitles |-> TopNRow(k, IF k \in up THEN 100 * (k + 1) ELSE 100 * k)] :
                  up \in SUBSET (1..TiedTitles)},
        reversed \in BOOLEAN,
        extra \in {<<>>, <<TopNRow(TopNTitles, 100 * (TopNTitles - 2))>>}}

InitTopN ==
    /\ page = "Main_Courts" /\ pc = "charts"
    /\ \E data \in TopNTables : csv = CsvFile(HeaderPT, {}, data)
    /\ df = ReadCsv(csv)
    /\ sel = [years |-> Unique(Column(df, "ano")),
              levels |-> Unique(Column(df, "senioridade")),
              contracts |-> Unique(Column(df, "contrato")),
              sizes |-> Unique(Column(df, "tamanho_empresa")), moeda |-> "USD"]
    /\ LET args == <<df, sel.years, sel.levels, sel.contracts, sel.sizes>>
           computed == filtrar(df, sel.years, sel.levels, sel.contracts, sel.sizes)
       IN  /\ df_filtered = WithSalario(computed, sel.moeda)
           /\ cache = CacheAfter(CacheAfter({}, "load_data", <<>>, df),
                                 "filtrar", args, computed)
    /\ kpi = KpisMain(df_filtered)
    /\ growth = NaN /\ df_vis = <<>> /\ top = <<>> /\ roles = NoRoles
    /\ comparison = <<>> /\ delta = NaN /\ shown = {} /\ exc = "none"
    /\ hit = FALSE /\ other = "absent"

NextTopN == ChartsMain

SpecTopN == InitTopN /\ [][NextTopN]_vars

(***************************************************************************)
(* The roles of the filtered table of 0_Main_Courts.py, by counting.       *)
(***************************************************************************)
RECURSIVE SumUsd(_, _)
SumUsd(d, g) ==
    IF d = <<>> THEN 0
    ELSE (IF Head(d)["cargo"] = g THEN Head(d)["usd"] ELSE 0) + SumUsd(Tail(d), g)
RowsOfRole(d, g) == {i \in 1..Len(d) : d[i]["cargo"] = g}
\* the mean salary of role g, in the currency selected
RoleMean(g) ==
    LET usd == Float(SumUsd(df_filtered, g), Cardinality(RowsOfRole(df_filtered, g)))
    IN  IF sel.moeda = "USD" THEN usd ELSE FMul(usd, TAXA_EUR)
\* the row where role g is first met
FirstRow(g) == CHOOSE i \in RowsOfRole(df_filtered, g) :
                   \A j \in RowsOfRole(df_filtered, g) : i <= j
TopSelected == {top[i].key : i \in 1..Len(top)}
TopRan == page = "Main_Courts" /\ pc \in {"comparison", "done", "raised"}
\* the ranking holds the largest means: min(TopN, roles) rows of distinct
\* roles, each with its role's mean, ascending for the display
TopHoldsLargest ==
    /\ Len(top) = (IF Cardinality(RolesOf(df_filtered, "cargo")) < TopN
                   THEN Cardinality(RolesOf(df_filtered, "cargo")) ELSE TopN)
    /\ Cardinality(TopSelected) = Len(top)
    /\ TopSelected \subseteq RolesOf(df_filtered, "cargo")
    /\ \A i \in 1..Len(top) : top[i].mean = RoleMean(top[i].key)
    /\ \A i, j \in 1..Len(top) : i < j => FLe(top[i].mean, top[j].mean)

(***************************************************************************)
(* C8 as stated.  The ranking holds the n roles of largest mean salary     *)
(* (all of them when there are fewer than n), and among roles of equal     *)
(* mean the one first met earlier in the rows is selected first, whatever  *)
(* the names: a selected role has a larger mean than a role left out, or   *)
(* the same mean and an earlier first row.                                 *)
(***************************************************************************)
C8_TiesByFirstEncounter ==
    TopRan =>
        /\ TopHoldsLargest
        /\ \A g \in TopSelected : \A h \in RolesOf(df_filtered, "cargo") \ TopSelected :
              \/ FGt(RoleMean(g), RoleMean(h))
              \/ RoleMean(g) = RoleMean(h) /\ FirstRow(g) < FirstRow(h)

(***************************************************************************)
(* C8 as amended.  The ranking holds the n roles of largest mean salary    *)
(* (all of them when there are fewer than n), and among roles of equal     *)
(* mean the one whose name comes first in ascending name order is selected *)
(* first, wherever its first row is: a selected role has a larger mean     *)
(* than a role left out, or the same mean and the earlier name.            *)
(***************************************************************************)
C8_TiesByGroupName ==
    TopRan =>
        /\ TopHoldsLargest
        /\ \A g \in TopSelected : \A h \in RolesOf(df_filtered, "cargo") \ TopSelected :
              \/ FGt(RoleMean(g), RoleMean(h))
              \/ RoleMean(g) = RoleMean(h) /\ Rank(g) < Rank(h)

\* a ranking of ten out of more roles that kept a role over one of the same
\* mean met earlier in the rows
C8_Witness ==
    /\ TopRan /\ Len(top) = TopN
    /\ \E g \in TopSelected : \E h \in RolesOf(df_filtered, "cargo") \ TopSelected :
          /\ RoleMean(g) = RoleMean(h)
          /\ FirstRow(h) < FirstRow(g)

(***************************************************************************)
(* The Automatic Insight section on its own, over three years: Home.py     *)
(* about to run it, after a run that loaded the file, kept the sidebar's   *)
(* defaults (everything selected) and computed the KPIs.                   *)
(***************************************************************************)
GrowthData ==
    [Year : GrowthYears, Experience_Level : {"SE"}, Employment_Type : {"FT"},
     Company_Size : {"M"}, Salary_In_Usd : GrowthSalaries, Job_Title : {"A"},
     Remote_Ratio : {0}, Employee_Residence_Iso3 : {"USA"}]

InitGrowth ==
    /\ page = "Home" /\ pc = "insight"
    /\ \E data \in SeqsUpTo(GrowthData, GrowthRows) : csv = CsvFile(HeaderEN, {}, data)
    /\ df = ReadCsv(csv)
    /\ sel = [years |-> Unique(Column(df, "Year")),
              levels |-> Unique(Column(df, "Experience_Level")),
              contracts |-> Unique(Column(df, "Employment_Type")),
              sizes |-> Unique(Column(df, "Company_Size")), moeda |-> "USD"]
    /\ LET args == <<df, sel.years, sel.levels, sel.contracts, sel.sizes>>
           computed == filter_data(df, sel.years, sel.levels, sel.contracts, sel.sizes)
       IN  /\ df_filtered = computed
           /\ cache = CacheAfter(CacheAfter({}, "load_data", <<>>, df),
                                 "filter_data", args, computed)
    /\ kpi = Kpis(df_filtered)
    /\ shown = (IF df_filtered = <<>> THEN {"warning:no_data"} ELSE {})
    /\ growth = NaN /\ df_vis = <<>> /\ top = <<>> /\ roles = NoRoles
    /\ comparison = <<>> /\ delta = NaN /\ exc = "none"
    /\ hit = FALSE /\ other = "absent"

NextGrowth == InsightHome

SpecGrowth == InitGrowth /\ [][NextGrowth]_vars

(***************************************************************************)
(* The years of the filtered table of Home.py, by counting.                *)
(***************************************************************************)
RowsOfYear(y) == {i \in 1..Len(df_filtered) : df_filtered[i]["Year"] = y}
RECURSIVE SumOfYear(_, _)
SumOfYear(d, y) ==
    IF d = <<>> THEN 0
    ELSE (IF Head(d)["Year"] = y THEN Head(d)["Salary_In_Usd"] ELSE 0)
         + SumOfYear(Tail(d), y)
YearMean(y) == Float(SumOfYear(df_filtered, y), Cardinality(RowsOfYear(y)))
YearsPresent == {df_filtered[i]["Year"] : i \in 1..Len(df_filtered)}
\* the pairs of consecutive years present, earlier year first
ConsecutiveYears ==
    {p \in YearsPresent \X YearsPresent :
        p[1] < p[2] /\ ~ \E y \in YearsPresent : p[1] < y /\ y < p[2]}
\* (mean of the later year / mean of the earlier year - 1) * 100
YearChange(p) ==
    FMul(FSub(FDiv(YearMean(p[2]), YearMean(p[1])), Float(1, 1)), Float(100, 1))
RECURSIVE SumOfChanges(_)
SumOfChanges(pairs) ==
    IF pairs = {} THEN Float(0, 1)
    ELSE LET p == CHOOSE q \in pairs : TRUE
         IN  FAdd(YearChange(p), SumOfChanges(pairs \ {p}))
\* the arithmetic mean of the changes of a set of pairs (0/0 over no pair)
MeanOfChanges(pairs) == FDiv(SumOfChanges(pairs), Float(Cardinality(pairs), 1))
InsightRan == page = "Home" /\ pc \in {"trim", "charts", "comparison", "done"}

DeltaSalaries == {100, 200, 300}

DeltaData ==
    [Year : {2020}, Experience_Level : {"SE"}, Employment_Type : {"FT"},
     Company_Size : {"M"}, Salary_In_Usd : DeltaSalaries, Job_Title : Titles,
     Remote_Ratio : {0}, Employee_Residence_Iso3 : {"USA"}]

InitDelta ==
    /\ page = "Main_Courts" /\ pc = "comparison"
    /\ \E data \in SeqsUpTo(DeltaData, DeltaRows) :
          data # <<>> /\ csv = CsvFile(HeaderPT, {}, data)
    /\ df = ReadCsv(csv)
    /\ \E moeda \in {"USD", "EUR"} :
          sel = [years |-> Unique(Column(df, "ano")),
                 levels |-> Unique(Column(df, "senioridade")),
                 contracts |-> Unique(Column(df, "contrato")),
                 sizes |-> Unique(Column(df, "tamanho_empresa")), moeda |-> moeda]
    /\ LET args == <<df, sel.years, sel.levels, sel.contracts, sel.sizes>>
           computed == filtrar(df, sel.years, sel.levels, sel.contracts, sel.sizes)
       IN  /\ df_filtered = WithSalario(computed, sel.moeda)
           /\ cache = CacheAfter(CacheAfter({}, "load_data", <<>>, df),
                                 "filtrar", args, computed)
    /\ kpi = KpisMain(df_filtered)
    /\ top \in TopGroups(df_filtered, "cargo", "salario")
    /\ growth = NaN /\ df_vis = <<>> /\ roles = NoRoles
    /\ comparison = <<>> /\ delta = NaN /\ shown = {} /\ exc = "none"
    /\ hit = FALSE /\ other = "absent"

NextDelta == ComparisonMain

SpecDelta == InitDelta /\ [][NextDelta]_vars

(***************************************************************************)
(* C11.  On 0_Main_Courts, for two distinct selected roles c1 (Cargo A)    *)
(* and c2 (Cargo B) that both have rows in the filtered table, the         *)
(* percentage of the message "c2 paga em media X% a mais que c1" is        *)
(* (mean salary of c2 / mean salary of c1 - 1) * 100, whichever of the two *)
(* names sorts first.                                                      *)
(***************************************************************************)
C11_DeltaIsOfCargoBOverCargoA ==
    (/\ page = "Main_Courts" /\ "info:delta" \in shown
     /\ roles[1] # roles[2]
     /\ RowsOfRole(df_filtered, roles[1]) # {}
     /\ RowsOfRole(df_filtered, roles[2]) # {})
    => delta = FMul(FSub(FDiv(RoleMean(roles[2]), RoleMean(roles[1])), Float(1, 1)),
                    Float(100, 1))

=============================================================================
